---- MODULE Spec2Model ----
(***************************************************************************)
(* Model of app_hq.py, a Streamlit script: every user interaction re-runs  *)
(* the whole script top to bottom (sidebar, model loader, main with the    *)
(* automatic tab and the manual tab).                                      *)
(*                                                                         *)
(* Text is a sequence of one-character strings.  The symbols of ObjSyms    *)
(* stand for one JSON object literal each (decoded through a table), "1"   *)
(* for a JSON number, "a" for a character of prose, " " for whitespace.    *)
(* Pixel coordinates are Python floats in the code; the model keeps the    *)
(* exact rational value [n, d] of each expression.                         *)
(***************************************************************************)
EXTENDS Integers, Sequences, FiniteSets, TLC

----------------------------------------------------------------------------
(* Bounds of the model *)

MaxTail == 4
MaxObjects == 2

(* Program constants *)

ExcerptLen == 100
NormScale == 1000
canvas_width == 700

----------------------------------------------------------------------------
(* Python values *)

None == <<>>
Some(v) == <<v>>

Rat(n, d) == [n |-> n, d |-> d]
RatEq(a, b) == a.n * b.d = b.n * a.d
RatLeq(a, b) == a.n * b.d <= b.n * a.d

SetMin(S) == CHOOSE x \in S : \A y \in S : x <= y
SetMax(S) == CHOOSE x \in S : \A y \in S : y <= x

----------------------------------------------------------------------------
(* re.search(r'\[.*\]', text_resp, re.DOTALL): leftmost "[", then greedily *)
(* everything (newlines included) up to the last "]" of the text.          *)

Opens(text) == {i \in 1..Len(text) : text[i] = "["}
Closes(text) == {i \in 1..Len(text) : text[i] = "]"}

re_search_lazy(text) ==
    IF Opens(text) = {} \/ {j \in Closes(text) : j > SetMin(Opens(text))} = {}
    THEN None
    ELSE Some(SubSeq(text, SetMin(Opens(text)),
                     SetMin({j \in Closes(text) : j > SetMin(Opens(text))})))

re_search(text) ==
    IF Opens(text) = {} \/ Closes(text) = {} \/ SetMax(Closes(text)) < SetMin(Opens(text))
    THEN None
    ELSE Some(SubSeq(text, SetMin(Opens(text)), SetMax(Closes(text))))

(* text_resp[:100] *)
excerpt_long(text) == SubSeq(text, 1, IF Len(text) < ExcerptLen + 1 THEN Len(text) ELSE ExcerptLen + 1)

excerpt(text) == SubSeq(text, 1, IF Len(text) < ExcerptLen THEN Len(text) ELSE ExcerptLen)

----------------------------------------------------------------------------
(* json.loads on the mini JSON of the response alphabet *)

ObjSyms == {"F", "W", "K", "S"}

JObj(c) == [t |-> "obj", c |-> c, items |-> <<>>]
JNum == [t |-> "num", c |-> "1", items |-> <<>>]
JArr(items) == [t |-> "arr", c |-> "", items |-> items]

ParseFail == [ok |-> FALSE, next |-> 0, val |-> JNum]
ParseOk(next, val) == [ok |-> TRUE, next |-> next, val |-> val]

StripWs(s) == SelectSeq(s, LAMBDA c : c # " ")

RECURSIVE ParseValue(_, _)
RECURSIVE ParseItems(_, _, _)

ParseValue(s, i) ==
    IF i > Len(s) THEN ParseFail
    ELSE IF s[i] \in ObjSyms THEN ParseOk(i + 1, JObj(s[i]))
    ELSE IF s[i] = "1" THEN ParseOk(i + 1, JNum)
    ELSE IF s[i] = "["
         THEN IF i + 1 <= Len(s) /\ s[i + 1] = "]"
              THEN ParseOk(i + 2, JArr(<<>>))
              ELSE ParseItems(s, i + 1, <<>>)
    ELSE ParseFail

ParseItems(s, i, acc) ==
    LET v == ParseValue(s, i) IN
    IF ~v.ok \/ v.next > Len(s) THEN ParseFail
    ELSE IF s[v.next] = "," THEN ParseItems(s, v.next + 1, Append(acc, v.val))
    ELSE IF s[v.next] = "]" THEN ParseOk(v.next + 1, JArr(Append(acc, v.val)))
    ELSE ParseFail

(* <<>> when json.loads raises JSONDecodeError, <<value>> otherwise *)
json_loads(span) ==
    LET s == StripWs(span)
        r == ParseValue(s, 1)
    IN IF r.ok /\ r.next = Len(s) + 1 THEN Some(r.val) ELSE None

(* The JSON objects the object symbols stand for *)
Dict(has_box, box_2d, has_label, label) ==
    [has_box |-> has_box, box_2d |-> box_2d, has_label |-> has_label, label |-> label]

ObjTable ==
    [c \in ObjSyms |->
        CASE c = "F" -> Dict(TRUE, <<700, 0, 1000, 1000>>, TRUE, "Floor")
          [] c = "W" -> Dict(TRUE, <<0, 300, 700, 1000>>, FALSE, "")
          [] c = "K" -> Dict(FALSE, <<>>, TRUE, "Wall")
          [] c = "S" -> Dict(TRUE, <<0, 0, 1000>>, TRUE, "Ceiling")]

----------------------------------------------------------------------------
(* process_gemini_auto *)

(* ymin, xmin, ymax, xmax = item["box_2d"]; box = [xmin/1000*width, ...] *)
pixel_box_swapped(box_2d, width, height) ==
    << Rat(box_2d[2] * height, NormScale), Rat(box_2d[1] * width, NormScale),
       Rat(box_2d[4] * height, NormScale), Rat(box_2d[3] * width, NormScale) >>

pixel_box(box_2d, width, height) ==
    << Rat(box_2d[2] * width, NormScale), Rat(box_2d[1] * height, NormScale),
       Rat(box_2d[4] * width, NormScale), Rat(box_2d[3] * height, NormScale) >>

(* The exception the loop body raises on an item, "" when it raises none *)
item_error(item, objs) ==
    IF item.t # "obj" THEN "TypeError"
    ELSE IF ~objs[item.c].has_box THEN "KeyError"
    ELSE IF Len(objs[item.c].box_2d) # 4 THEN "ValueError"
    ELSE ""

Info(msg, detail) == [msg |-> msg, detail |-> detail]

(* result, info: the returned pair; json_arg: the argument of json.loads, *)
(* None when it was not called; sam_calls: the calls of sam_model        *)
Ret(result, info, json_arg, sam_calls) ==
    [result |-> result, info |-> info, json_arg |-> json_arg, sam_calls |-> sam_calls]

SamCall(by, model, bboxes) == [by |-> by, model |-> model, bboxes |-> bboxes]

(* env: what the remote service and the segmentation model do in this call *)
(*   remote_raises, text: model.generate_content / response.text           *)
(*   objs: the objects the object symbols of the text decode to            *)
(*   sam_raises: sam_model(image, bboxes=...)                              *)
process_gemini_auto(image, model_name, sam_model, env) ==
    LET width == image[1]
        height == image[2]
        match == re_search(env.text)
        json_data == json_loads(match[1])
        items == json_data[1].items
        bad == {i \in 1..Len(items) : item_error(items[i], env.objs) # ""}
        bboxes == [i \in 1..Len(items) |->
                      pixel_box(env.objs[items[i].c].box_2d, width, height)]
        call == SamCall("auto", sam_model, bboxes)
    IN  IF env.remote_raises THEN Ret(None, Info("RemoteError", <<>>), None, <<>>)
        ELSE IF match = None
             THEN Ret(None, Info("json_not_found", excerpt(env.text)), None, <<>>)
        ELSE IF json_data = None
             THEN Ret(None, Info("JSONDecodeError", <<>>), match, <<>>)
        ELSE IF bad # {}
             THEN Ret(None, Info(item_error(items[SetMin(bad)], env.objs), <<>>), match, <<>>)
        ELSE IF bboxes # <<>>
             THEN IF env.sam_raises
                  THEN Ret(None, Info("SamError", <<>>), match, <<call>>)
                  ELSE Ret(Some([model |-> sam_model, bboxes |-> bboxes]),
                           Info("success", <<model_name>>), match, <<call>>)
        ELSE Ret(None, Info("no_detection", <<>>), match, <<>>)

Env(remote_raises, text, objs, sam_raises) ==
    [remote_raises |-> remote_raises, text |-> text, objs |-> objs, sam_raises |-> sam_raises]

----------------------------------------------------------------------------
(* Manual tab: display scale and canvas-to-pixel mapping *)

(* (n, width) for which the IEEE-754 double n * (700 / width) lies just    *)
(* below the exact integer 700 * n / width, so that int() yields one less: *)
(* the pairs among the image sizes of the model (1161 * (700 / 1161) is    *)
(* 699.9999999999999).                                                     *)
RoundsBelow == {<<1161, 1161>>}

(* int(n * scale), scale = canvas_width / width if width > canvas_width else 1.0 *)
int_scaled(n, width) ==
    IF width > canvas_width
    THEN IF (canvas_width * n) % width = 0 /\ <<n, width>> \in RoundsBelow
         THEN (canvas_width * n) \div width - 1
         ELSE (canvas_width * n) \div width
    ELSE n

(* box = [left * scale_x, top * scale_y, (left + width) * scale_x, ...] *)
canvas_box_uniform(obj, width, height, d_w, d_h) ==
    << Rat(obj.left * width, d_w), Rat(obj.top * width, d_w),
       Rat((obj.left + obj.width) * width, d_w),
       Rat((obj.top + obj.height) * width, d_w) >>

canvas_box(obj, width, height, d_w, d_h) ==
    << Rat(obj.left * width, d_w), Rat(obj.top * height, d_h),
       Rat((obj.left + obj.width) * width, d_w),
       Rat((obj.top + obj.height) * height, d_h) >>

Shown(kind, msg) == [kind |-> kind, msg |-> msg]

(* with tab2: ... ; raised is the exception that leaves the block uncaught *)
manual_tab(image, objects, sam_model, sam_raises) ==
    LET width == image[1]
        height == image[2]
        d_w == int_scaled(width, width)
        d_h == int_scaled(height, width)
        obj == objects[Len(objects)]
        box == canvas_box(obj, width, height, d_w, d_h)
        call == SamCall("manual", sam_model, <<box>>)
    IN  IF objects = <<>>
        THEN [d_w |-> d_w, d_h |-> d_h, sam_calls |-> <<>>, display |-> <<>>, raised |-> ""]
        ELSE IF d_w = 0 \/ d_h = 0
        THEN [d_w |-> d_w, d_h |-> d_h, sam_calls |-> <<>>, display |-> <<>>,
              raised |-> "ZeroDivisionError"]
        ELSE IF sam_raises
        THEN [d_w |-> d_w, d_h |-> d_h, sam_calls |-> <<call>>, display |-> <<>>,
              raised |-> "SamError"]
        ELSE [d_w |-> d_w, d_h |-> d_h, sam_calls |-> <<call>>,
              display |-> <<Shown("image", "manual_result")>>, raised |-> ""]

----------------------------------------------------------------------------
(* Inputs of the model *)

ParseAlphabet == {"[", "]", ",", "F", "a", " "}
Tails == UNION {[1..n -> ParseAlphabet] : n \in 0..MaxTail}
PadLens == {0, ExcerptLen - 2, ExcerptLen + 1}
Pad(n) == [i \in 1..n |-> "a"]
ParseTexts == {Pad(n) \o t : n \in PadLens, t \in Tails}

ImageSizes == {<<2000, 1000>>, <<1400, 1000>>, <<1400, 1001>>, <<640, 480>>,
               <<1161, 774>>, <<1400, 1>>}
Coords == {0, 300, 700, NormScale}
Boxes == {<<a, b, c, d>> : a \in Coords, b \in Coords, c \in Coords, d \in Coords}

Rect(left, top, width, height) ==
    [left |-> left, top |-> top, width |-> width, height |-> height]
Rects == {Rect(100, 50, 200, 100), Rect(0, 0, 699, 349), Rect(33, 7, 10, 20)}
ObjectLists == UNION {[1..n -> Rects] : n \in 0..MaxObjects}

Handle(variant, id) == [variant |-> variant, id |-> id]
TestHandle == Handle("mobile_sam.pt", 1)
TestImage == <<2000, 1000>>

WorkflowImages == {<<2000, 1000>>, <<1400, 1001>>}
WorkflowRects == {Rect(100, 50, 200, 100), Rect(33, 7, 10, 20)}
WorkflowTexts ==
    { <<"a", "a", " ", "[", "]", " ", "a">>,
      <<"a", "a", "a">>,
      <<"[", "F", "]">>,
      <<"a", "[", "F", ",", "W", "]">>,
      <<"[", "K", "]">>,
      <<"[", "1", "]">>,
      <<"[", "a", "]">> }

ModelEntry(name, gen) == [name |-> name, gen |-> gen]
ModelListings ==
    { <<>>,
      <<ModelEntry("embedding-001", FALSE)>>,
      <<ModelEntry("gemini-pro", TRUE), ModelEntry("gemini-1.5-flash", TRUE)>>,
      <<ModelEntry("embedding-001", FALSE), ModelEntry("gemini-2.0-flash", TRUE)>> }
ApiKeys == {"", "key"}
SamTypes == {"MobileSAM", "SAM Base"}

----------------------------------------------------------------------------
(* State *)

VARIABLES
    api_key,                \* sidebar text input
    model_choice,           \* the entry the user picked in the selectbox, 0: untouched
    sam_type,               \* sidebar radio
    uploaded_file,          \* None, or <<size>> of the uploaded image
    canvas_objects,         \* canvas.json_data["objects"], kept by the canvas across reruns
    cache,                  \* st.cache_resource store of load_sam_model
    constructed,            \* SAM(...) constructions completed, per selector
    pc,                     \* position of the script run
    selected_gemini_model,
    sam_model,
    run,                    \* what the current script run has done so far
    p_text, p_out,          \* response parsing on its own
    b_in, b_out,            \* box conversion on its own
    c_in, c_out             \* canvas mapping on its own

vars == << api_key, model_choice, sam_type, uploaded_file, canvas_objects, cache,
           constructed, pc, selected_gemini_model, sam_model, run,
           p_text, p_out, b_in, b_out, c_in, c_out >>

session_vars == << api_key, model_choice, sam_type, uploaded_file, canvas_objects >>
workflow_vars == << api_key, model_choice, sam_type, uploaded_file, canvas_objects,
                    cache, constructed, pc, selected_gemini_model, sam_model, run >>
parse_vars == << p_text, p_out >>
box_vars == << b_in, b_out >>
canvas_vars == << c_in, c_out >>

NewRun(trigger) ==
    [trigger |-> trigger, auto_clicked |-> trigger = "press",
     net_calls |-> <<>>, sam_calls |-> <<>>, display |-> <<>>,
     raised |-> {}, loader |-> "", main_reached |-> FALSE,
     response |-> None, auto_ret |-> None, end |-> ""]

InitWorkflow ==
    /\ api_key = ""
    /\ model_choice = 0
    /\ sam_type = "MobileSAM"
    /\ uploaded_file = None
    /\ canvas_objects = <<>>
    /\ cache = [t \in SamTypes |-> None]
    /\ constructed = [t \in SamTypes |-> 0]
    /\ pc = "sidebar"
    /\ selected_gemini_model = ""
    /\ sam_model = None
    /\ run = NewRun("start")

IdleParse == p_text = <<>> /\ p_out = None
IdleBox == b_in = <<>> /\ b_out = None
IdleCanvas == c_in = <<>> /\ c_out = None

----------------------------------------------------------------------------
(* User interactions: each one changes a widget and starts a script rerun *)

Rerun(trigger) ==
    /\ pc = "idle"
    /\ pc' = "sidebar"
    /\ selected_gemini_model' = ""
    /\ sam_model' = None
    /\ run' = NewRun(trigger)
    /\ UNCHANGED << cache, constructed, parse_vars, box_vars, canvas_vars >>

(* the widgets of main exist only when the last run rendered them *)
MainRendered == run.main_reached /\ uploaded_file # None

EnterApiKey ==
    /\ \E k \in ApiKeys : k # api_key /\ api_key' = k
    /\ Rerun("api_key")
    /\ UNCHANGED << model_choice, sam_type, uploaded_file, canvas_objects >>

ChooseModel ==
    /\ selected_gemini_model # ""
    /\ \E i \in 1..2 : i # model_choice /\ model_choice' = i
    /\ Rerun("model")
    /\ UNCHANGED << api_key, sam_type, uploaded_file, canvas_objects >>

ChooseSamType ==
    /\ \E t \in SamTypes : t # sam_type /\ sam_type' = t
    /\ Rerun("sam_type")
    /\ UNCHANGED << api_key, model_choice, uploaded_file, canvas_objects >>

UploadFile ==
    /\ run.main_reached
    /\ \E f \in WorkflowImages : Some(f) # uploaded_file /\ uploaded_file' = Some(f)
    /\ canvas_objects' \in {canvas_objects, <<>>}
    /\ Rerun("upload")
    /\ UNCHANGED << api_key, model_choice, sam_type >>

PressAuto ==
    /\ MainRendered
    /\ Rerun("press")
    /\ UNCHANGED session_vars

DrawRect ==
    /\ MainRendered
    /\ Len(canvas_objects) < MaxObjects
    /\ \E r \in WorkflowRects : canvas_objects' = Append(canvas_objects, r)
    /\ Rerun("draw")
    /\ UNCHANGED << api_key, model_choice, sam_type, uploaded_file >>

ClearCanvas ==
    /\ MainRendered
    /\ canvas_objects # <<>>
    /\ canvas_objects' = <<>>
    /\ Rerun("clear")
    /\ UNCHANGED << api_key, model_choice, sam_type, uploaded_file >>

----------------------------------------------------------------------------
(* The script run, section by section *)

(* 'generateContent' in m.supported_generation_methods *)
available_of(listing) ==
    [i \in 1..Len(SelectSeq(listing, LAMBDA m : m.gen)) |->
        SelectSeq(listing, LAMBDA m : m.gen)[i].name]

(* "flash" in name and "1.5" in name, over the names of ModelListings *)
is_flash_15(name) == name = "gemini-1.5-flash"

default_idx(available_models) ==
    IF \E i \in 1..Len(available_models) : is_flash_15(available_models[i])
    THEN SetMin({i \in 1..Len(available_models) : is_flash_15(available_models[i])})
    ELSE 1

(* st.selectbox: the user's pick while it is among the options, else the default *)
selectbox(options, index, choice) ==
    IF choice \in 1..Len(options) THEN options[choice] ELSE options[index]

(* with st.sidebar: no credential, nothing to list *)
SidebarNoKey ==
    /\ pc = "sidebar"
    /\ api_key = ""
    /\ pc' = "load"
    /\ UNCHANGED << session_vars, cache, constructed, selected_gemini_model, sam_model,
                    run, parse_vars, box_vars, canvas_vars >>

(* genai.list_models() raises: except: pass *)
SidebarListFails ==
    /\ pc = "sidebar"
    /\ api_key # ""
    /\ run' = [run EXCEPT !.net_calls = Append(@, "list_models"),
                          !.raised = @ \cup {"list_models"}]
    /\ pc' = "load"
    /\ UNCHANGED << session_vars, cache, constructed, selected_gemini_model, sam_model,
                    parse_vars, box_vars, canvas_vars >>

SidebarList ==
    /\ pc = "sidebar"
    /\ api_key # ""
    /\ \E listing \in ModelListings :
         LET available_models == available_of(listing) IN
         IF available_models # <<>>
         THEN /\ selected_gemini_model' =
                    selectbox(available_models, default_idx(available_models), model_choice)
              /\ run' = [run EXCEPT !.net_calls = Append(@, "list_models")]
         ELSE /\ selected_gemini_model' = ""
              /\ run' = [run EXCEPT !.net_calls = Append(@, "list_models"),
                                    !.display = Append(@, Shown("error", "no_models"))]
    /\ pc' = "load"
    /\ UNCHANGED << session_vars, cache, constructed, sam_model,
                    parse_vars, box_vars, canvas_vars >>

(* load_sam_model *)
variant_of(model_type) == IF model_type = "MobileSAM" THEN "mobile_sam.pt" ELSE "sam_b.pt"

(* @st.cache_resource: the stored return value for these arguments, if any *)
cache_lookup_off(store, model_type) == None

cache_lookup(store, model_type) == store[model_type]

(* position after the try/except around the load: st.stop() on failure *)
after_load_nostop(loaded) == "main"

after_load(loaded) == IF loaded THEN "main" ELSE "idle"

LoadCached ==
    /\ pc = "load"
    /\ cache_lookup(cache, sam_type) # None
    /\ sam_model' = cache_lookup(cache, sam_type)
    /\ run' = [run EXCEPT !.loader = "cached",
                          !.display = Append(@, Shown("sidebar", sam_type))]
    /\ pc' = after_load(TRUE)
    /\ UNCHANGED << session_vars, cache, constructed, selected_gemini_model,
                    parse_vars, box_vars, canvas_vars >>

LoadConstruct ==
    /\ pc = "load"
    /\ cache_lookup(cache, sam_type) = None
    /\ LET handle == Handle(variant_of(sam_type), constructed[sam_type] + 1) IN
         /\ sam_model' = Some(handle)
         /\ cache' = [cache EXCEPT ![sam_type] = Some(handle)]
    /\ constructed' = [constructed EXCEPT ![sam_type] = @ + 1]
    /\ run' = [run EXCEPT !.loader = "constructed",
                          !.display = Append(@, Shown("sidebar", sam_type))]
    /\ pc' = after_load(TRUE)
    /\ UNCHANGED << session_vars, selected_gemini_model, parse_vars, box_vars, canvas_vars >>

(* SAM(...) raises: st.error, st.stop *)
LoadFails ==
    /\ pc = "load"
    /\ cache_lookup(cache, sam_type) = None
    /\ run' = [run EXCEPT !.loader = "failed",
                          !.raised = @ \cup {"load"},
                          !.display = Append(@, Shown("error", "load_error")),
                          !.end = IF after_load(FALSE) = "idle" THEN "stopped" ELSE @]
    /\ pc' = after_load(FALSE)
    /\ UNCHANGED << session_vars, cache, constructed, selected_gemini_model, sam_model,
                    parse_vars, box_vars, canvas_vars >>

(* main: if uploaded_file is falsy nothing below the uploader runs *)
MainNoFile ==
    /\ pc = "main"
    /\ uploaded_file = None
    /\ run' = [run EXCEPT !.main_reached = TRUE, !.end = "completed"]
    /\ pc' = "idle"
    /\ UNCHANGED << session_vars, cache, constructed, selected_gemini_model, sam_model,
                    parse_vars, box_vars, canvas_vars >>

(* with tab1: the button was not pressed in this run *)
AutoNotPressed ==
    /\ pc = "main"
    /\ uploaded_file # None
    /\ ~run.auto_clicked
    /\ run' = [run EXCEPT !.main_reached = TRUE]
    /\ pc' = "manual"
    /\ UNCHANGED << session_vars, cache, constructed, selected_gemini_model, sam_model,
                    parse_vars, box_vars, canvas_vars >>

(* not (not api_key or not selected_gemini_model) *)
auto_gate_keyonly(key, model_name) == key # ""

auto_gate(key, model_name) == key # "" /\ model_name # ""

AutoValidationError ==
    /\ pc = "main"
    /\ uploaded_file # None
    /\ run.auto_clicked
    /\ ~auto_gate(api_key, selected_gemini_model)
    /\ run' = [run EXCEPT !.main_reached = TRUE,
                          !.display = Append(@, Shown("error", "validation"))]
    /\ pc' = "manual"
    /\ UNCHANGED << session_vars, cache, constructed, selected_gemini_model, sam_model,
                    parse_vars, box_vars, canvas_vars >>

(* what main shows for the pair process_gemini_auto returned: `if result:` *)
(* takes a returned result object as true, None as false                  *)
auto_report(ret) ==
    IF ret.result # None
    THEN << Shown("image", "original"), Shown("image", "auto_result"),
            Shown("success", ret.info.msg) >>
    ELSE << Shown("error", ret.info.msg) >>

(* the calls of this process_gemini_auto that raised *)
auto_raised(ret) ==
    IF ret.info.msg = "RemoteError" THEN {"generate_content"}
    ELSE IF ret.info.msg = "SamError" THEN {"sam_auto"}
    ELSE {}

AutoRun ==
    /\ pc = "main"
    /\ uploaded_file # None
    /\ run.auto_clicked
    /\ auto_gate(api_key, selected_gemini_model)
    /\ \E remote_raises \in BOOLEAN, text \in WorkflowTexts, sam_raises \in BOOLEAN :
         LET ret == process_gemini_auto(uploaded_file[1], selected_gemini_model, sam_model,
                                        Env(remote_raises, text, ObjTable, sam_raises))
         IN run' = [run EXCEPT !.main_reached = TRUE,
                               !.net_calls = Append(@, "generate_content"),
                               !.sam_calls = @ \o ret.sam_calls,
                               !.raised = @ \cup auto_raised(ret),
                               !.response = IF remote_raises THEN None ELSE Some(text),
                               !.auto_ret = Some(ret),
                               !.display = @ \o auto_report(ret)]
    /\ pc' = "manual"
    /\ UNCHANGED << session_vars, cache, constructed, selected_gemini_model, sam_model,
                    parse_vars, box_vars, canvas_vars >>

(* with tab2: runs in every script run that has a file, whatever tab1 did *)
Manual ==
    /\ pc = "manual"
    /\ \E sam_raises \in BOOLEAN :
         LET out == manual_tab(uploaded_file[1], canvas_objects, sam_model, sam_raises) IN
         run' = [run EXCEPT !.sam_calls = @ \o out.sam_calls,
                            !.display = @ \o out.display,
                            !.raised = @ \cup (IF out.raised = "SamError"
                                               THEN {"sam_manual"} ELSE {}),
                            !.end = IF out.raised = "" THEN "completed" ELSE "uncaught"]
    /\ pc' = "idle"
    /\ UNCHANGED << session_vars, cache, constructed, selected_gemini_model, sam_model,
                    parse_vars, box_vars, canvas_vars >>

Init == InitWorkflow /\ IdleParse /\ IdleBox /\ IdleCanvas

Next ==
    \/ EnterApiKey \/ ChooseModel \/ ChooseSamType \/ UploadFile
    \/ PressAuto \/ DrawRect \/ ClearCanvas
    \/ SidebarNoKey \/ SidebarListFails \/ SidebarList
    \/ LoadCached \/ LoadConstruct \/ LoadFails
    \/ MainNoFile \/ AutoNotPressed \/ AutoValidationError \/ AutoRun
    \/ Manual

Spec == Init /\ [][Next]_vars

----------------------------------------------------------------------------
(* process_gemini_auto on its own, over response texts *)

InitParse == InitWorkflow /\ IdleBox /\ IdleCanvas /\ p_text \in ParseTexts /\ p_out = None

RunParse ==
    /\ p_out = None
    /\ \E sam_raises \in BOOLEAN :
         p_out' = Some(process_gemini_auto(TestImage, "gemini-pro", Some(TestHandle),
                                           Env(FALSE, p_text, ObjTable, sam_raises)))
    /\ UNCHANGED << workflow_vars, p_text, box_vars, canvas_vars >>

NextParse == RunParse

SpecParse == InitParse /\ [][NextParse]_vars

(* process_gemini_auto on its own, over image sizes and normalized boxes *)

BoxIn(image, box_2d) == [image |-> image, box_2d |-> box_2d]
BoxText == <<"[", "F", ",", "W", "]">>
BoxObjs(box_2d) == [ObjTable EXCEPT !["F"] = Dict(TRUE, box_2d, TRUE, "Floor")]

InitBox ==
    /\ InitWorkflow /\ IdleParse /\ IdleCanvas
    /\ b_in \in {BoxIn(image, box_2d) : image \in ImageSizes, box_2d \in Boxes}
    /\ b_out = None

RunBox ==
    /\ b_out = None
    /\ \E sam_raises \in BOOLEAN :
         b_out' = Some(process_gemini_auto(b_in.image, "gemini-pro", Some(TestHandle),
                                           Env(FALSE, BoxText, BoxObjs(b_in.box_2d), sam_raises)))
    /\ UNCHANGED << workflow_vars, parse_vars, b_in, canvas_vars >>

NextBox == RunBox

SpecBox == InitBox /\ [][NextBox]_vars

(* the manual tab on its own, over image sizes and canvas object lists *)

CanvasIn(image, objects) == [image |-> image, objects |-> objects]

InitCanvas ==
    /\ InitWorkflow /\ IdleParse /\ IdleBox
    /\ c_in \in {CanvasIn(image, objects) : image \in ImageSizes, objects \in ObjectLists}
    /\ c_out = None

RunCanvas ==
    /\ c_out = None
    /\ \E sam_raises \in BOOLEAN :
         c_out' = Some(manual_tab(c_in.image, c_in.objects, Some(TestHandle), sam_raises))
    /\ UNCHANGED << workflow_vars, parse_vars, box_vars, c_in >>

NextCanvas == RunCanvas

SpecCanvas == InitCanvas /\ [][NextCanvas]_vars

----------------------------------------------------------------------------
(* Properties *)

InSeq(x, seq) == \E i \in 1..Len(seq) : seq[i] = x
RunPastAuto == pc \in {"manual", "idle"} /\ run.main_reached
AutoCalls == {i \in 1..Len(run.sam_calls) : run.sam_calls[i].by = "auto"}
ManualCalls == {i \in 1..Len(run.sam_calls) : run.sam_calls[i].by = "manual"}
ErrorShown == \E i \in 1..Len(run.display) : run.display[i].kind = "error"

(* C1, as stated: a run whose button press meets an empty credential or an *)
(* empty model selection shows the validation error and makes no call to   *)
(* the remote service at all; process_gemini_auto is entered only with     *)
(* both present.                                                           *)
C1_NoNetworkCallAtAll ==
    /\ (run.auto_clicked /\ RunPastAuto /\ (api_key = "" \/ selected_gemini_model = ""))
          => (InSeq(Shown("error", "validation"), run.display) /\ run.net_calls = <<>>)
    /\ run.auto_ret # None => (api_key # "" /\ selected_gemini_model # "")

(* C1, amended: such a run shows the validation error and makes no remote  *)
(* detection call (and no remote call at all when the credential is empty; *)
(* with a credential the sidebar has listed the models before);            *)
(* process_gemini_auto is entered only with both present.                  *)
C1_NoDetectionCall ==
    /\ (run.auto_clicked /\ pc \in {"manual", "idle"}) => run.main_reached
    /\ (run.auto_clicked /\ RunPastAuto /\ (api_key = "" \/ selected_gemini_model = ""))
          => /\ InSeq(Shown("error", "validation"), run.display)
             /\ ~InSeq("generate_content", run.net_calls)
             /\ run.auto_ret = None
             /\ AutoCalls = {}
             /\ api_key = "" => run.net_calls = <<>>
    /\ run.auto_ret # None => (api_key # "" /\ selected_gemini_model # "")

C1_Witness ==
    /\ run.auto_clicked /\ pc = "idle" /\ run.end = "completed"
    /\ api_key # "" /\ selected_gemini_model = ""
    /\ InSeq(Shown("error", "validation"), run.display)
    /\ run.net_calls = <<"list_models">>

(* C2: when the response parses to an empty array the run reports "no      *)
(* detection" as a status, not through the error display, and the          *)
(* segmentation model is not invoked by the automatic workflow.            *)
EmptyArrayResponse ==
    /\ run.response # None
    /\ re_search(run.response[1]) # None
    /\ json_loads(re_search(run.response[1])[1]) = Some(JArr(<<>>))

C2_NoDetectionIsNotAnError ==
    (RunPastAuto /\ EmptyArrayResponse)
       => /\ run.auto_ret[1].info.msg = "no_detection"
          /\ AutoCalls = {}
          /\ ~InSeq(Shown("error", "no_detection"), run.display)
          /\ \E i \in 1..Len(run.display) :
                run.display[i].msg = "no_detection" /\ run.display[i].kind # "error"

(* C3: every parsed entry [ymin, xmin, ymax, xmax] reaches the             *)
(* segmentation model as [xmin/1000*w, ymin/1000*h, xmax/1000*w,           *)
(* ymax/1000*h]; a well-formed box stays ordered; 2000x1000 with           *)
(* [700,0,1000,1000] gives (0, 700, 2000, 1000).                           *)
IsScaled(px, coord, dim) == px.n * NormScale = coord * dim * px.d

BoxAsStated(pb, box_2d, w, h) ==
    /\ Len(pb) = 4
    /\ IsScaled(pb[1], box_2d[2], w) /\ IsScaled(pb[2], box_2d[1], h)
    /\ IsScaled(pb[3], box_2d[4], w) /\ IsScaled(pb[4], box_2d[3], h)
    /\ (box_2d[2] <= box_2d[4] /\ box_2d[1] <= box_2d[3])
          => (RatLeq(pb[1], pb[3]) /\ RatLeq(pb[2], pb[4]))

C3_PixelBox ==
    b_out # None =>
       LET calls == b_out[1].sam_calls
           w == b_in.image[1]
           h == b_in.image[2]
       IN /\ Len(calls) = 1
          /\ Len(calls[1].bboxes) = 2
          /\ BoxAsStated(calls[1].bboxes[1], b_in.box_2d, w, h)
          /\ BoxAsStated(calls[1].bboxes[2], ObjTable["W"].box_2d, w, h)
          /\ (b_in.image = <<2000, 1000>> /\ b_in.box_2d = <<700, 0, 1000, 1000>>)
                => /\ RatEq(calls[1].bboxes[1][1], Rat(0, 1))
                   /\ RatEq(calls[1].bboxes[1][2], Rat(700, 1))
                   /\ RatEq(calls[1].bboxes[1][3], Rat(2000, 1))
                   /\ RatEq(calls[1].bboxes[1][4], Rat(1000, 1))

C3_Witness ==
    /\ b_out # None
    /\ b_in.image = <<2000, 1000>> /\ b_in.box_2d = <<700, 0, 1000, 1000>>
    /\ Len(b_out[1].sam_calls) = 1
    /\ b_out[1].result # None

(* C4, as stated: the box passed from the manual tab is (left/s, top/s,    *)
(* (left+width)/s, (top+height)/s) with s = min(1, 700/w), on both axes,   *)
(* also when the canvas dimensions are truncated.                          *)
OverScale(v, w) == IF w > canvas_width THEN Rat(v * w, canvas_width) ELSE Rat(v, 1)

C4_UniformScale ==
    (c_out # None /\ c_out[1].sam_calls # <<>>) =>
       LET box == c_out[1].sam_calls[1].bboxes[1]
           obj == c_in.objects[Len(c_in.objects)]
           w == c_in.image[1]
       IN /\ RatEq(box[1], OverScale(obj.left, w))
          /\ RatEq(box[2], OverScale(obj.top, w))
          /\ RatEq(box[3], OverScale(obj.left + obj.width, w))
          /\ RatEq(box[4], OverScale(obj.top + obj.height, w))

(* C4, amended: the box is (left*(w/d_w), top*(h/d_h), (left+width)*(w/d_w), *)
(* (top+height)*(h/d_h)) for the truncated canvas dimensions d_w, d_h of   *)
(* the last rectangle; it is (left/s, ...) on an axis whose canvas         *)
(* dimension the truncation left unchanged; 1400x1000 with                 *)
(* (100, 50, 200, 100) gives (200, 100, 600, 300).                         *)
C4_PerAxisScale ==
    (c_out # None /\ c_out[1].sam_calls # <<>>) =>
       LET box == c_out[1].sam_calls[1].bboxes[1]
           obj == c_in.objects[Len(c_in.objects)]
           w == c_in.image[1]
           h == c_in.image[2]
           d_w == c_out[1].d_w
           d_h == c_out[1].d_h
           exact_w == IF w > canvas_width THEN d_w * w = canvas_width * w ELSE d_w = w
           exact_h == IF w > canvas_width THEN d_h * w = canvas_width * h ELSE d_h = h
       IN /\ Len(c_out[1].sam_calls) = 1 /\ Len(c_out[1].sam_calls[1].bboxes) = 1
          /\ d_w > 0 /\ d_h > 0
          /\ box[1].n * d_w = obj.left * w * box[1].d
          /\ box[2].n * d_h = obj.top * h * box[2].d
          /\ box[3].n * d_w = (obj.left + obj.width) * w * box[3].d
          /\ box[4].n * d_h = (obj.top + obj.height) * h * box[4].d
          /\ exact_w => /\ RatEq(box[1], OverScale(obj.left, w))
                        /\ RatEq(box[3], OverScale(obj.left + obj.width, w))
          /\ exact_h => /\ RatEq(box[2], OverScale(obj.top, w))
                        /\ RatEq(box[4], OverScale(obj.top + obj.height, w))
          /\ (c_in.image = <<1400, 1000>> /\ obj = Rect(100, 50, 200, 100))
                => /\ RatEq(box[1], Rat(200, 1)) /\ RatEq(box[2], Rat(100, 1))
                   /\ RatEq(box[3], Rat(600, 1)) /\ RatEq(box[4], Rat(300, 1))

C4_Witness ==
    /\ c_out # None /\ c_out[1].sam_calls # <<>>
    /\ c_in.image = <<1400, 1001>>
    /\ c_out[1].d_h = 500
    /\ c_in.objects[Len(c_in.objects)] = Rect(100, 50, 200, 100)
    /\ ~RatEq(c_out[1].sam_calls[1].bboxes[1][2], Rat(100, 1))

(* C5: a response text without a "[" that is followed by a "]" makes       *)
(* process_gemini_auto return no result, with a message carrying at most   *)
(* the first 100 characters of the text; json.loads and the segmentation   *)
(* model are not called.                                                   *)
NoBracketSpan(text) ==
    ~ \E i \in 1..Len(text), j \in 1..Len(text) : i < j /\ text[i] = "[" /\ text[j] = "]"

C5_NoSpanFailure ==
    (p_out # None /\ NoBracketSpan(p_text)) =>
       /\ p_out[1].result = None
       /\ p_out[1].info.msg = "json_not_found"
       /\ Len(p_out[1].info.detail) <= ExcerptLen
       /\ Len(p_out[1].info.detail) <= Len(p_text)
       /\ \A i \in 1..Len(p_out[1].info.detail) : p_out[1].info.detail[i] = p_text[i]
       /\ p_out[1].json_arg = None
       /\ p_out[1].sam_calls = <<>>

C5_Witness ==
    /\ p_out # None /\ NoBracketSpan(p_text)
    /\ Len(p_text) > ExcerptLen
    /\ Len(p_out[1].info.detail) = ExcerptLen
    /\ InSeq("]", p_text)

(* C6, as stated: when the text contains exactly one bracketed JSON array, *)
(* the span handed to json.loads is that array, whatever surrounds it.     *)
ArraySpans(text) ==
    {ij \in (1..Len(text)) \X (1..Len(text)) :
        /\ ij[1] < ij[2] /\ text[ij[1]] = "[" /\ text[ij[2]] = "]"
        /\ json_loads(SubSeq(text, ij[1], ij[2])) # None}

Outermost(text) ==
    {ij \in ArraySpans(text) :
        ~ \E kl \in ArraySpans(text) : kl # ij /\ kl[1] <= ij[1] /\ ij[2] <= kl[2]}

TheArray(text) == CHOOSE ij \in Outermost(text) : TRUE

C6_ExtractsTheArray ==
    (p_out # None /\ Cardinality(Outermost(p_text)) = 1) =>
       p_out[1].json_arg = Some(SubSeq(p_text, TheArray(p_text)[1], TheArray(p_text)[2]))

(* C6, amended: ... provided the text before the array holds no "[" and    *)
(* the text after it no "]"; the span always runs from the first "[" of    *)
(* the text to its last "]".                                               *)
C6_ExtractsTheArrayCleanProse ==
    /\ (p_out # None /\ Cardinality(Outermost(p_text)) = 1
          /\ (\A k \in 1..(TheArray(p_text)[1] - 1) : p_text[k] # "[")
          /\ (\A k \in (TheArray(p_text)[2] + 1)..Len(p_text) : p_text[k] # "]"))
         => p_out[1].json_arg = Some(SubSeq(p_text, TheArray(p_text)[1], TheArray(p_text)[2]))
    /\ (p_out # None /\ p_out[1].json_arg # None)
         => /\ p_out[1].json_arg[1][1] = "["
            /\ \E i \in 1..Len(p_text), j \in 1..Len(p_text) :
                  /\ p_out[1].json_arg[1] = SubSeq(p_text, i, j)
                  /\ \A k \in 1..(i - 1) : p_text[k] # "["
                  /\ \A k \in (j + 1)..Len(p_text) : p_text[k] # "]"

C6_Witness ==
    /\ p_out # None /\ Cardinality(Outermost(p_text)) = 1
    /\ TheArray(p_text)[1] > 1 /\ TheArray(p_text)[2] < Len(p_text)
    /\ TheArray(p_text)[2] > TheArray(p_text)[1] + 1
    /\ p_out[1].json_arg = Some(SubSeq(p_text, TheArray(p_text)[1], TheArray(p_text)[2]))
    /\ p_out[1].result # None

(* C7: load_sam_model constructs at most one model per selector, every     *)
(* call returns that one instance, and it is the variant the selector      *)
(* names, also after switching back and forth.                             *)
C7_LoadOnce ==
    /\ \A t \in SamTypes : constructed[t] <= 1
    /\ \A t \in SamTypes : cache[t] # None =>
          cache[t][1].variant = (IF t = "MobileSAM" THEN "mobile_sam.pt" ELSE "sam_b.pt")
    /\ sam_model # None =>
          /\ sam_model = cache[sam_type]
          /\ sam_model[1].id = 1
          /\ sam_model[1].variant =
                (IF sam_type = "MobileSAM" THEN "mobile_sam.pt" ELSE "sam_b.pt")

C7_Witness ==
    /\ run.loader = "cached" /\ run.trigger = "sam_type"
    /\ sam_type = "MobileSAM"
    /\ \A t \in SamTypes : constructed[t] = 1
    /\ sam_model = Some(Handle("mobile_sam.pt", 1))

(* C8: a failing model load is shown as an error and stops the run: main   *)
(* is not reached, no upload is processed, no detection call and no        *)
(* segmentation call is made in that run.                                  *)
C8_LoadFailureHalts ==
    run.loader = "failed" =>
       /\ pc = "idle" /\ run.end = "stopped"
       /\ InSeq(Shown("error", "load_error"), run.display)
       /\ ~run.main_reached
       /\ run.sam_calls = <<>>
       /\ ~InSeq("generate_content", run.net_calls)
       /\ run.auto_ret = None
       /\ sam_model = None

C8_Witness ==
    /\ run.loader = "failed" /\ pc = "idle"
    /\ uploaded_file # None /\ canvas_objects # <<>>
    /\ api_key # ""

(* C9: a remote call or a segmentation call that raises, in either tab,    *)
(* ends in a displayed error message and never in an uncaught exception.   *)
C9_ExceptionsBecomeText ==
    (pc = "idle" /\ run.raised \cap {"generate_content", "sam_auto", "sam_manual"} # {})
       => (run.end = "completed" /\ ErrorShown)

(* C10: in one script run at most one of the two tabs invokes the          *)
(* segmentation model, and the manual tab does so only in the run a newly  *)
(* drawn rectangle started.                                                *)
C10_ExclusiveWorkflows ==
    /\ ~(AutoCalls # {} /\ ManualCalls # {})
    /\ ManualCalls # {} => run.trigger = "draw"

====
